---- MODULE Spec2Model ----
(***************************************************************************)
(* Model of inventario_mongo_tk.py: the inventory / sales / user logic     *)
(* over the three MongoDB collections (productos, usuarios, ventas) and    *)
(* the life cycle of the script (start-up, login window, first main        *)
(* window, then the second copy of the program that the same file holds    *)
(* after line 956 and that runs once the first event loop returns).        *)
(*                                                                         *)
(* Conventions                                                             *)
(*  - a collection is the sequence of its documents in insertion order     *)
(*    (the natural order of find()); the store-internal _id is left out;   *)
(*  - free texts (nombre, proveedor, search values) are sequences of       *)
(*    characters, so that emptiness, parsing and matching are computed;    *)
(*  - precio is a number of currency units (the float arithmetic of the    *)
(*    source is exact on the small integers used here);                    *)
(*  - an exception is modelled by its message key in ret.err, "" meaning   *)
(*    a normal return.                                                     *)
(***************************************************************************)
EXTENDS Integers, Sequences, FiniteSets, TLC

VARIABLES
    pc,                   \* position of the script
    MongoClient,          \* TRUE iff "from pymongo import MongoClient" worked
    servidor,             \* TRUE iff the server answered during start-up
    coleccion_productos,  \* TRUE iff the handle is not None
    coleccion_usuarios,   \* TRUE iff the handle is not None
    coleccion_ventas,     \* TRUE iff the handle is not None
    productos,            \* documents of tienda_informatica.productos
    usuarios,             \* documents of tienda_informatica.usuarios
    ventas,               \* documents of tienda_informatica.ventas
    usuario_actual,       \* global usuario_actual
    ret,                  \* outcome of the last call
    pasos,                \* number of writes done so far (logical time)
    llamadas              \* realizar_venta calls of the clients of the store

vars == <<pc, MongoClient, servidor, coleccion_productos, coleccion_usuarios,
          coleccion_ventas, productos, usuarios, ventas, usuario_actual, ret,
          pasos, llamadas>>

(***************************************************************************)
(* Bounds of the model                                                     *)
(***************************************************************************)
MaxId == 2          \* product ids are 1..MaxId
MaxPasos == 3       \* writes explored from the empty database
MaxCant == 5        \* largest quantity typed into the form
MaxPrecio == 2      \* largest price typed into the form
MaxCampos == 1      \* keys of one nuevos_datos dictionary
MaxClientes == 2    \* instances of the program working on one store

(***************************************************************************)
(* Constants of the program                                                *)
(***************************************************************************)
CATEGORIAS == {"Computadoras", "Smartphones", "Accesorios", "Perifericos"}
STOCK_MINIMO == 5
None == "None"

(***************************************************************************)
(* Input domains                                                           *)
(***************************************************************************)
Ids == 1..MaxId
Nombres == {<<>>, <<"a">>}
CategoriasEntrada == {"Computadoras", "Juguetes"}
Precios == {-1, 0, MaxPrecio}
Cantidades == {-1, 0, MaxCant}
Proveedores == {<<>>, <<"A">>}
CantidadesVenta == {0, 1, MaxCant, MaxCant + 1}
Campos == {"nombre", "categoria", "precio", "cantidad", "proveedor"}

\* contents of the product form: what boton_agregar / boton_modificar read
Formularios ==
    [nombre : Nombres, categoria : CategoriasEntrada, precio : Precios,
     cantidad : Cantidades, proveedor : Proveedores]

FormularioBase ==
    [nombre |-> <<"a">>, categoria |-> "Computadoras", precio |-> MaxPrecio,
     cantidad |-> MaxCant, proveedor |-> <<"A">>]

\* a nuevos_datos dictionary: its keys and the value of each key (the values
\* of the other fields are not part of the dictionary and are fixed here so
\* that every dictionary is listed once)
NuevosDatos ==
    {d \in [claves : {K \in SUBSET Campos : Cardinality(K) <= MaxCampos},
            valores : Formularios] :
        \A c \in Campos \ d.claves : d.valores[c] = FormularioBase[c]}

Usernames == {"admin", "bob"}
Passwords == {"admin", "pw1"}

(***************************************************************************)
(* Store gateway: pymongo's find_one / update_one / delete_one / sort      *)
(***************************************************************************)
Minimo(S) == CHOOSE x \in S : \A y \in S : x <= y

\* index of the first document with that id_producto, 0 when there is none
find_one(col, id) ==
    LET I == {i \in 1..Len(col) : col[i].id_producto = id}
    IN  IF I = {} THEN 0 ELSE Minimo(I)

\* variant: the document goes in front of the ones already stored
insert_one_inicio(col, doc) == <<doc>> \o col

\* insert_one: the document goes to the end of the collection
insert_one(col, doc) == Append(col, doc)

\* variant: every field of the form is written, given or not
Set_completo(doc, d) ==
    [c \in DOMAIN doc |-> IF c \in Campos THEN d.valores[c] ELSE doc[c]]

\* {"$set": nuevos_datos} on one document
Set(doc, d) ==
    [c \in DOMAIN doc |-> IF c \in d.claves THEN d.valores[c] ELSE doc[c]]

\* update_one: the first match is rewritten
update_one(col, id, d) ==
    LET i == find_one(col, id)
    IN  IF i = 0 THEN col ELSE [col EXCEPT ![i] = Set(col[i], d)]

\* variant: the match is removed with every document stored after it
delete_one_hasta(col, id) ==
    LET i == find_one(col, id)
    IN  IF i = 0 THEN col ELSE SubSeq(col, 1, i - 1)

\* delete_one: the first match is removed
delete_one(col, id) ==
    LET i == find_one(col, id)
    IN  IF i = 0 THEN col
        ELSE [j \in 1..(Len(col) - 1) |-> IF j < i THEN col[j] ELSE col[j + 1]]

\* insertion of one document into a list sorted by ascending id_producto
RECURSIVE Insertar(_, _)
Insertar(s, doc) ==
    IF s = <<>> THEN <<doc>>
    ELSE IF Head(s).id_producto <= doc.id_producto
         THEN <<Head(s)>> \o Insertar(Tail(s), doc)
         ELSE <<doc>> \o s

\* .sort("id_producto", 1)
RECURSIVE sort_id(_)
sort_id(col) ==
    IF col = <<>> THEN <<>>
    ELSE Insertar(sort_id(SubSeq(col, 1, Len(col) - 1)), col[Len(col)])

\* find(filtro) is SelectSeq: the documents of the collection that satisfy
\* the filter, in the order of the collection

(***************************************************************************)
(* Conversions of the interface texts                                      *)
(***************************************************************************)
Digitos == <<"0", "1", "2", "3", "4", "5", "6", "7", "8", "9">>

EsDigito(c) == \E i \in 1..10 : Digitos[i] = c

ValorDigito(c) == (CHOOSE i \in 1..10 : Digitos[i] = c) - 1

\* int(valor) raises ValueError on a text that is not a decimal numeral
EsNumeral(t) == Len(t) > 0 /\ \A i \in 1..Len(t) : EsDigito(t[i])

\* int(valor) of a decimal numeral
RECURSIVE int(_)
int(t) ==
    IF Len(t) = 0 THEN 0
    ELSE 10 * int(SubSeq(t, 1, Len(t) - 1)) + ValorDigito(t[Len(t)])

\* str(n) of a natural number, as the entry of the form holds an id
RECURSIVE str(_)
str(n) ==
    IF n < 10 THEN <<Digitos[n + 1]>>
    ELSE str(n \div 10) \o <<Digitos[(n % 10) + 1]>>

\* lower-casing of one character ("$options": "i")
Minuscula(c) == IF c = "A" THEN "a" ELSE IF c = "B" THEN "b" ELSE c

\* {"$regex": patron, "$options": "i"} for patterns made of literal characters
\* and of the wildcard "." : the pattern matches somewhere in the text
regex_i(patron, texto) ==
    \E k \in 0..(Len(texto) - Len(patron)) :
        \A i \in 1..Len(patron) :
            \/ patron[i] = "."
            \/ Minuscula(patron[i]) = Minuscula(texto[k + i])

(***************************************************************************)
(* Outcome of a call                                                       *)
(***************************************************************************)
\* what a handler shows of the service call it made
Ret(op, err) ==
    [op |-> op, err |-> err, ok |-> FALSE, total |-> 0, docs |-> <<>>]

EnVentana == pc \in {"principal", "segunda"}

(***************************************************************************)
(* Product catalog: the service functions, as functions of the collection  *)
(***************************************************************************)
\* variant: the check of the price is left out
validar_producto_sin_precio(f) ==
    IF f.nombre = <<>> THEN "nombre_vacio"
    ELSE IF f.categoria \notin CATEGORIAS THEN "categoria_invalida"
    ELSE IF f.cantidad < 0 THEN "cantidad_negativa"
    ELSE IF f.proveedor = <<>> THEN "proveedor_vacio"
    ELSE ""

\* the validations of agregar_producto, in the order of the source
validar_producto(f) ==
    IF f.nombre = <<>> THEN "nombre_vacio"
    ELSE IF f.categoria \notin CATEGORIAS THEN "categoria_invalida"
    ELSE IF f.precio < 0 THEN "precio_negativo"
    ELSE IF f.cantidad < 0 THEN "cantidad_negativa"
    ELSE IF f.proveedor = <<>> THEN "proveedor_vacio"
    ELSE ""

\* the forms typed into the interface: a form that passes the validations,
\* or one that differs from such a form in one field (a form with several
\* invalid fields is refused like the form with the first of them alone)
FormulariosBoton ==
    {f \in Formularios :
        \E g \in Formularios :
            /\ validar_producto(g) = ""
            /\ Cardinality({c \in Campos : f[c] # g[c]}) <= 1}

\* variant: the uniqueness check is left out
existente_omitido(col, id) == FALSE

\* variant: only the document stored last is compared
existente_ultimo(col, id) ==
    Len(col) > 0 /\ col[Len(col)].id_producto = id

\* the uniqueness check of agregar_producto
existente(col, id) == find_one(col, id) # 0

documento(id, f) ==
    [id_producto |-> id, nombre |-> f.nombre, categoria |-> f.categoria,
     precio |-> f.precio, cantidad |-> f.cantidad, proveedor |-> f.proveedor]

\* the exception agregar_producto raises, "" when it raises none
error_agregar(col, id, f) ==
    IF ~coleccion_productos THEN "sin_conexion"
    ELSE IF validar_producto(f) # "" THEN validar_producto(f)
    ELSE IF existente(col, id) THEN "ya_existe"
    ELSE ""

\* agregar_producto: the exception, the collection afterwards and the
\* document returned
agregar_producto(col, id, f) ==
    IF error_agregar(col, id, f) = ""
    THEN [err |-> "", productos |-> insert_one(col, documento(id, f)),
          docs |-> <<documento(id, f)>>]
    ELSE [err |-> error_agregar(col, id, f), productos |-> col, docs |-> <<>>]

\* a search request: the criterion and its value (a text, or a category
\* for the criterion "categoria")
Criterios == {"id", "nombre", "proveedor", "categoria", "precio"}
ValoresBusqueda == {str(1), str(MaxId), <<"a">>, <<".">>}

Busquedas ==
    [criterio : Criterios \ {"categoria"}, texto : ValoresBusqueda,
     categoria : {""}]
    \cup [criterio : {"categoria"}, texto : {<<>>},
          categoria : CategoriasEntrada]

\* the exception buscar_producto raises, "" when it raises none
error_buscar(b) ==
    IF ~coleccion_productos THEN "sin_conexion"
    ELSE IF b.criterio = "id" /\ ~EsNumeral(b.texto) THEN "literal_invalido"
    ELSE IF b.criterio \notin {"id", "nombre", "proveedor", "categoria"}
         THEN "criterio_invalido"
    ELSE ""

\* variant: the id is compared with >= instead of =
filtro_desde(b, doc) ==
    CASE b.criterio = "id" -> doc.id_producto >= int(b.texto)
      [] b.criterio = "nombre" -> regex_i(b.texto, doc.nombre)
      [] b.criterio = "proveedor" -> regex_i(b.texto, doc.proveedor)
      [] b.criterio = "categoria" -> doc.categoria = b.categoria

\* the filter buscar_producto builds
filtro(b, doc) ==
    CASE b.criterio = "id" -> doc.id_producto = int(b.texto)
      [] b.criterio = "nombre" -> regex_i(b.texto, doc.nombre)
      [] b.criterio = "proveedor" -> regex_i(b.texto, doc.proveedor)
      [] b.criterio = "categoria" -> doc.categoria = b.categoria

buscar_producto(col, b) ==
    IF error_buscar(b) = ""
    THEN LET F(doc) == filtro(b, doc)
         IN  [err |-> "", docs |-> sort_id(SelectSeq(col, F))]
    ELSE [err |-> error_buscar(b), docs |-> <<>>]

\* variant: a document is created when none matches (upsert)
modificar_producto_upsert(col, id, d) ==
    IF ~coleccion_productos
    THEN [err |-> "sin_conexion", ok |-> FALSE, productos |-> col]
    ELSE [err |-> "", ok |-> find_one(col, id) # 0,
          productos |-> IF find_one(col, id) # 0
                        THEN update_one(col, id, d)
                        ELSE insert_one(col, documento(id, d.valores))]

\* modificar_producto: ok is matched_count > 0
modificar_producto(col, id, d) ==
    IF ~coleccion_productos
    THEN [err |-> "sin_conexion", ok |-> FALSE, productos |-> col]
    ELSE [err |-> "", ok |-> find_one(col, id) # 0,
          productos |-> update_one(col, id, d)]

\* eliminar_producto: ok is deleted_count > 0
eliminar_producto(col, id) ==
    IF ~coleccion_productos
    THEN [err |-> "sin_conexion", ok |-> FALSE, productos |-> col]
    ELSE [err |-> "", ok |-> find_one(col, id) # 0,
          productos |-> delete_one(col, id)]

mostrar_inventario(col) ==
    IF ~coleccion_productos
    THEN [err |-> "sin_conexion", docs |-> <<>>]
    ELSE [err |-> "", docs |-> sort_id(col)]

(***************************************************************************)
(* Sales                                                                   *)
(***************************************************************************)
\* variant: the quantity is checked before the product is looked up
error_venta_cantidad_antes(col, id, cantidad_vendida) ==
    IF ~coleccion_productos THEN "sin_conexion"
    ELSE IF cantidad_vendida <= 0 THEN "cantidad_no_positiva"
    ELSE IF find_one(col, id) = 0 THEN "no_existe"
    ELSE IF col[find_one(col, id)].cantidad < cantidad_vendida
         THEN "stock_insuficiente"
    ELSE ""

\* the exception realizar_venta raises before it writes, "" when none
error_venta(col, id, cantidad_vendida) ==
    IF ~coleccion_productos THEN "sin_conexion"
    ELSE IF find_one(col, id) = 0 THEN "no_existe"
    ELSE IF cantidad_vendida <= 0 THEN "cantidad_no_positiva"
    ELSE IF col[find_one(col, id)].cantidad < cantidad_vendida
         THEN "stock_insuficiente"
    ELSE ""

\* variant: the stock goes down by one unit whatever the quantity sold
nuevo_stock_unidad(stock_actual, cantidad_vendida) == stock_actual - 1

nuevo_stock(stock_actual, cantidad_vendida) == stock_actual - cantidad_vendida

\* variant: the quantity and the price are added
total_venta_suma(cantidad_vendida, precio) == cantidad_vendida + precio

total_venta(cantidad_vendida, precio) == cantidad_vendida * precio

\* {"$set": {"cantidad": n}}
set_cantidad(n) ==
    [claves |-> {"cantidad"}, valores |-> [FormularioBase EXCEPT !.cantidad = n]]

\* datetime.datetime.now(): the logical time of the call
now == pasos + 1

doc_venta(prod, cantidad_vendida, usuario) ==
    [id_producto |-> prod.id_producto, nombre |-> prod.nombre,
     cantidad |-> cantidad_vendida, precio_unitario |-> prod.precio,
     total |-> total_venta(cantidad_vendida, prod.precio), fecha |-> now,
     usuario |-> usuario]

\* the stock write of realizar_venta
descontar(col, id, cantidad_vendida) ==
    update_one(col, id,
        set_cantidad(nuevo_stock(col[find_one(col, id)].cantidad,
                                 cantidad_vendida)))

\* variant: the insertion of the sale document never fails
registrar_venta_sin_fallo(vts, prod, cantidad_vendida, usuario, falla) ==
    IF coleccion_ventas
    THEN insert_one(vts, doc_venta(prod, cantidad_vendida, usuario))
    ELSE vts

\* the best-effort insertion of the sale document; falla is the outcome of
\* coleccion_ventas.insert_one (TRUE: it raised and the exception was printed)
registrar_venta(vts, prod, cantidad_vendida, usuario, falla) ==
    IF coleccion_ventas /\ ~falla
    THEN insert_one(vts, doc_venta(prod, cantidad_vendida, usuario))
    ELSE vts

\* variant: the sale document is inserted before the stock is compared
realizar_venta_registra_antes(col, vts, id, cantidad_vendida, usuario, falla) ==
    IF error_venta(col, id, cantidad_vendida) \in {"", "stock_insuficiente"}
    THEN LET prod == col[find_one(col, id)] IN
         [err |-> error_venta(col, id, cantidad_vendida),
          total |-> IF error_venta(col, id, cantidad_vendida) = ""
                    THEN total_venta(cantidad_vendida, prod.precio) ELSE 0,
          productos |-> IF error_venta(col, id, cantidad_vendida) = ""
                        THEN descontar(col, id, cantidad_vendida) ELSE col,
          ventas |-> registrar_venta(vts, prod, cantidad_vendida, usuario,
                                     falla)]
    ELSE [err |-> error_venta(col, id, cantidad_vendida), total |-> 0,
          productos |-> col, ventas |-> vts]

\* realizar_venta of the first copy: the exception, the total returned and
\* the two collections afterwards
realizar_venta(col, vts, id, cantidad_vendida, usuario, falla) ==
    IF error_venta(col, id, cantidad_vendida) = ""
    THEN LET prod == col[find_one(col, id)] IN
         [err |-> "",
          total |-> total_venta(cantidad_vendida, prod.precio),
          productos |-> descontar(col, id, cantidad_vendida),
          ventas |-> registrar_venta(vts, prod, cantidad_vendida, usuario,
                                     falla)]
    ELSE [err |-> error_venta(col, id, cantidad_vendida), total |-> 0,
          productos |-> col, ventas |-> vts]

\* realizar_venta of the second copy: no sale document
realizar_venta_2(col, vts, id, cantidad_vendida) ==
    IF error_venta(col, id, cantidad_vendida) = ""
    THEN LET prod == col[find_one(col, id)] IN
         [err |-> "",
          total |-> total_venta(cantidad_vendida, prod.precio),
          productos |-> descontar(col, id, cantidad_vendida),
          ventas |-> vts]
    ELSE [err |-> error_venta(col, id, cantidad_vendida), total |-> 0,
          productos |-> col, ventas |-> vts]

(***************************************************************************)
(* Reports and history                                                     *)
(***************************************************************************)
\* variant: only the products with low stock are added up
RECURSIVE valor_total_bajo(_)
valor_total_bajo(col) ==
    IF col = <<>> THEN 0
    ELSE (IF Head(col).cantidad < STOCK_MINIMO
          THEN Head(col).cantidad * Head(col).precio ELSE 0)
         + valor_total_bajo(Tail(col))

RECURSIVE valor_total(_)
valor_total(col) ==
    IF col = <<>> THEN 0
    ELSE Head(col).cantidad * Head(col).precio + valor_total(Tail(col))

\* variant: the threshold itself counts as low stock
bajo_stock_inclusive(col) ==
    LET F(p) == p.cantidad <= STOCK_MINIMO IN SelectSeq(col, F)

bajo_stock(col) ==
    LET F(p) == p.cantidad < STOCK_MINIMO IN SelectSeq(col, F)

generar_reporte(col) ==
    IF ~coleccion_productos
    THEN [err |-> "sin_conexion", docs |-> <<>>, total |-> 0]
    ELSE [err |-> "", docs |-> bajo_stock(col), total |-> valor_total(col)]

\* insertion of one sale into a list sorted by descending fecha
RECURSIVE InsertarFecha(_, _)
InsertarFecha(s, doc) ==
    IF s = <<>> THEN <<doc>>
    ELSE IF Head(s).fecha >= doc.fecha
         THEN <<Head(s)>> \o InsertarFecha(Tail(s), doc)
         ELSE <<doc>> \o s

\* .sort("fecha", -1)
RECURSIVE sort_fecha(_)
sort_fecha(col) ==
    IF col = <<>> THEN <<>>
    ELSE InsertarFecha(sort_fecha(SubSeq(col, 1, Len(col) - 1)), col[Len(col)])

\* a history request; an absent date is <<>>, a given one is <<t>>
Historiales ==
    [filtro_usuario : {None, "admin"}, fecha_desde : {<<>>, <<2>>},
     fecha_hasta : {<<>>, <<1>>}]

filtro_ventas(h, v) ==
    /\ h.filtro_usuario \notin {None, ""} => v.usuario = h.filtro_usuario
    /\ h.fecha_desde # <<>> => v.fecha >= h.fecha_desde[1]
    /\ h.fecha_hasta # <<>> => v.fecha <= h.fecha_hasta[1]

obtener_ventas(vts, h) ==
    IF ~coleccion_ventas
    THEN [err |-> "sin_conexion", docs |-> <<>>]
    ELSE LET F(v) == filtro_ventas(h, v)
         IN  [err |-> "", docs |-> sort_fecha(SelectSeq(vts, F))]

(***************************************************************************)
(* Users                                                                   *)
(***************************************************************************)
usuario_admin ==
    [username |-> "admin", password |-> "admin", creado_por |-> "sistema"]

\* .strip() of the texts typed into the user entries
strip(s) == IF s = " " THEN "" ELSE IF s = " bob" THEN "bob" ELSE s

EntradasUsuario == Usernames \cup {"", " ", " bob"}
EntradasPassword == Passwords \cup {""}

\* variant: the uniqueness check is left out
existe_usuario_omitido(col, username) == FALSE

existe_usuario(col, username) ==
    \E i \in 1..Len(col) : col[i].username = username

\* variant: the fields are validated before the handle is looked at
error_crear_usuario_valida_antes(col, username, password) ==
    IF username = "" THEN "usuario_vacio"
    ELSE IF password = "" THEN "contrasena_vacia"
    ELSE IF ~coleccion_usuarios THEN "sin_conexion"
    ELSE IF existe_usuario(col, username) THEN "usuario_existe"
    ELSE ""

\* the exception crear_usuario raises, "" when it raises none
error_crear_usuario(col, username, password) ==
    IF ~coleccion_usuarios THEN "sin_conexion"
    ELSE IF username = "" THEN "usuario_vacio"
    ELSE IF password = "" THEN "contrasena_vacia"
    ELSE IF existe_usuario(col, username) THEN "usuario_existe"
    ELSE ""

\* variant: the document does not keep who created it
crear_usuario_sin_autor(col, username, password, creado_por) ==
    LET doc == [username |-> username, password |-> password,
                creado_por |-> None]
    IN  IF error_crear_usuario(col, username, password) = ""
        THEN [err |-> "", usuarios |-> insert_one(col, doc), docs |-> <<doc>>]
        ELSE [err |-> error_crear_usuario(col, username, password),
              usuarios |-> col, docs |-> <<>>]

crear_usuario(col, username, password, creado_por) ==
    LET doc == [username |-> username, password |-> password,
                creado_por |-> creado_por]
    IN  IF error_crear_usuario(col, username, password) = ""
        THEN [err |-> "", usuarios |-> insert_one(col, doc), docs |-> <<doc>>]
        ELSE [err |-> error_crear_usuario(col, username, password),
              usuarios |-> col, docs |-> <<>>]

\* variant: the password is not compared
validar_login_solo_usuario(col, username, password) ==
    IF ~coleccion_usuarios
    THEN [err |-> "sin_conexion", docs |-> <<>>]
    ELSE LET F(u) == u.username = username
             r == SelectSeq(col, F)
         IN  [err |-> "", docs |-> IF r = <<>> THEN <<>> ELSE <<r[1]>>]

\* validar_login: the first document with that username and password;
\* docs is empty when find_one returns None
validar_login(col, username, password) ==
    IF ~coleccion_usuarios
    THEN [err |-> "sin_conexion", docs |-> <<>>]
    ELSE LET F(u) == u.username = username /\ u.password = password
             r == SelectSeq(col, F)
         IN  [err |-> "", docs |-> IF r = <<>> THEN <<>> ELSE <<r[1]>>]

(***************************************************************************)
(* Handlers of the interface: each one makes its service call on the       *)
(* store and keeps what it shows in ret.  A write is explored while        *)
(* pasos < MaxPasos.                                                       *)
(***************************************************************************)
boton_agregar(id, f) ==
    LET r == agregar_producto(productos, id, f) IN
    /\ EnVentana
    /\ r.err = "" => pasos < MaxPasos
    /\ productos' = r.productos
    /\ pasos' = IF r.err = "" THEN pasos + 1 ELSE pasos
    /\ ret' = [Ret("agregar_producto", r.err) EXCEPT !.docs = r.docs]
    /\ UNCHANGED <<pc, MongoClient, servidor, llamadas, coleccion_productos,
                   coleccion_usuarios, coleccion_ventas, usuarios, ventas,
                   usuario_actual>>

boton_buscar(b) ==
    LET r == buscar_producto(productos, b) IN
    /\ EnVentana
    /\ ret' = [Ret("buscar_producto", r.err) EXCEPT !.docs = r.docs]
    /\ UNCHANGED <<pc, MongoClient, servidor, llamadas, coleccion_productos,
                   coleccion_usuarios, coleccion_ventas, productos, usuarios,
                   ventas, usuario_actual, pasos>>

boton_modificar(id, d) ==
    LET r == modificar_producto(productos, id, d) IN
    /\ EnVentana
    /\ r.ok => pasos < MaxPasos
    /\ productos' = r.productos
    /\ pasos' = IF r.ok THEN pasos + 1 ELSE pasos
    /\ ret' = [Ret("modificar_producto", r.err) EXCEPT !.ok = r.ok]
    /\ UNCHANGED <<pc, MongoClient, servidor, llamadas, coleccion_productos,
                   coleccion_usuarios, coleccion_ventas, usuarios, ventas,
                   usuario_actual>>

boton_eliminar(id) ==
    LET r == eliminar_producto(productos, id) IN
    /\ EnVentana
    /\ r.ok => pasos < MaxPasos
    /\ productos' = r.productos
    /\ pasos' = IF r.ok THEN pasos + 1 ELSE pasos
    /\ ret' = [Ret("eliminar_producto", r.err) EXCEPT !.ok = r.ok]
    /\ UNCHANGED <<pc, MongoClient, servidor, llamadas, coleccion_productos,
                   coleccion_usuarios, coleccion_ventas, usuarios, ventas,
                   usuario_actual>>

boton_mostrar_todo ==
    LET r == mostrar_inventario(productos) IN
    /\ EnVentana
    /\ ret' = [Ret("mostrar_inventario", r.err) EXCEPT !.docs = r.docs]
    /\ UNCHANGED <<pc, MongoClient, servidor, llamadas, coleccion_productos,
                   coleccion_usuarios, coleccion_ventas, productos, usuarios,
                   ventas, usuario_actual, pasos>>

\* boton_realizar_venta of the first copy: the sale is made for usuario_actual
boton_realizar_venta(id, cantidad_vendida, falla) ==
    LET r == realizar_venta(productos, ventas, id, cantidad_vendida,
                            usuario_actual, falla)
    IN
    /\ pc = "principal"
    /\ IF r.err = "" THEN pasos < MaxPasos ELSE ~falla
    /\ productos' = r.productos
    /\ ventas' = r.ventas
    /\ pasos' = IF r.err = "" THEN pasos + 1 ELSE pasos
    /\ ret' = [Ret("realizar_venta", r.err) EXCEPT !.total = r.total]
    /\ UNCHANGED <<pc, MongoClient, servidor, llamadas, coleccion_productos,
                   coleccion_usuarios, coleccion_ventas, usuarios,
                   usuario_actual>>

\* boton_realizar_venta of the second copy
boton_realizar_venta_2(id, cantidad_vendida) ==
    LET r == realizar_venta_2(productos, ventas, id, cantidad_vendida) IN
    /\ pc = "segunda"
    /\ r.err = "" => pasos < MaxPasos
    /\ productos' = r.productos
    /\ ventas' = r.ventas
    /\ pasos' = IF r.err = "" THEN pasos + 1 ELSE pasos
    /\ ret' = [Ret("realizar_venta", r.err) EXCEPT !.total = r.total]
    /\ UNCHANGED <<pc, MongoClient, servidor, llamadas, coleccion_productos,
                   coleccion_usuarios, coleccion_ventas, usuarios,
                   usuario_actual>>

\* boton_reporte_stock_bajo shows the first component of generar_reporte
boton_reporte_stock_bajo ==
    LET r == generar_reporte(productos) IN
    /\ EnVentana
    /\ ret' = [Ret("reporte_stock_bajo", r.err) EXCEPT !.docs = r.docs]
    /\ UNCHANGED <<pc, MongoClient, servidor, llamadas, coleccion_productos,
                   coleccion_usuarios, coleccion_ventas, productos, usuarios,
                   ventas, usuario_actual, pasos>>

\* boton_reporte_valor_total shows the second component of generar_reporte
boton_reporte_valor_total ==
    LET r == generar_reporte(productos) IN
    /\ EnVentana
    /\ ret' = [Ret("reporte_valor_total", r.err) EXCEPT !.total = r.total]
    /\ UNCHANGED <<pc, MongoClient, servidor, llamadas, coleccion_productos,
                   coleccion_usuarios, coleccion_ventas, productos, usuarios,
                   ventas, usuario_actual, pasos>>

\* cargar_ventas of abrir_ventana_historial (first copy only)
cargar_ventas(h) ==
    LET r == obtener_ventas(ventas, h) IN
    /\ pc = "principal"
    /\ ret' = [Ret("obtener_ventas", r.err) EXCEPT !.docs = r.docs]
    /\ UNCHANGED <<pc, MongoClient, servidor, llamadas, coleccion_productos,
                   coleccion_usuarios, coleccion_ventas, productos, usuarios,
                   ventas, usuario_actual, pasos>>

\* boton_registrar_usuario (first copy only) and the crear_usuario it calls
boton_registrar_usuario(entrada_usuario, entrada_contrasena) ==
    LET nuevo_user == strip(entrada_usuario)
        nueva_pass == strip(entrada_contrasena)
        r == crear_usuario(usuarios, nuevo_user, nueva_pass, usuario_actual)
    IN
    /\ pc = "principal"
    /\ IF usuario_actual = None
       THEN /\ ret' = Ret("boton_registrar_usuario", "no_autenticado")
            /\ UNCHANGED <<usuarios, pasos>>
       ELSE IF nuevo_user = "" \/ nueva_pass = ""
       THEN /\ ret' = Ret("boton_registrar_usuario", "campos_vacios")
            /\ UNCHANGED <<usuarios, pasos>>
       ELSE /\ r.err = "" => pasos < MaxPasos
            /\ usuarios' = r.usuarios
            /\ pasos' = IF r.err = "" THEN pasos + 1 ELSE pasos
            /\ ret' = [Ret("crear_usuario", r.err) EXCEPT !.docs = r.docs]
    /\ UNCHANGED <<pc, MongoClient, servidor, llamadas, coleccion_productos,
                   coleccion_usuarios, coleccion_ventas, productos, ventas,
                   usuario_actual>>

(***************************************************************************)
(* Life cycle of the script                                                *)
(***************************************************************************)
\* variant: the default user is inserted whatever the collection holds
bootstrap_siempre(col) == insert_one(col, usuario_admin)

\* the default user goes into an empty users collection
bootstrap(col) ==
    IF Len(col) = 0 THEN insert_one(col, usuario_admin) ELSE col

\* module-level connection set-up and bootstrap of the default user
arranque ==
    /\ pc = "arranque"
    /\ pc' = "login"
    /\ coleccion_productos' = MongoClient
    /\ coleccion_usuarios' = (MongoClient /\ servidor)
    /\ coleccion_ventas' = MongoClient
    /\ usuarios' = IF MongoClient /\ servidor
                   THEN bootstrap(usuarios)
                   ELSE usuarios
    /\ UNCHANGED <<MongoClient, servidor, llamadas, productos, ventas, usuario_actual,
                   ret, pasos>>

\* intentar_login of mostrar_login
intentar_login(entrada_usuario, entrada_contrasena) ==
    LET usuario == strip(entrada_usuario)
        contrasena == strip(entrada_contrasena)
        r == validar_login(usuarios, usuario, contrasena)
    IN
    /\ pc = "login"
    /\ IF usuario = "" \/ contrasena = ""
       THEN /\ ret' = Ret("intentar_login", "campos_vacios")
            /\ UNCHANGED <<pc, usuario_actual>>
       ELSE IF r.err = "" /\ r.docs # <<>>
       THEN /\ ret' = [Ret("validar_login", "") EXCEPT !.docs = r.docs]
            /\ usuario_actual' = r.docs[1].username
            /\ pc' = "principal"
       ELSE /\ ret' = Ret("validar_login", r.err)
            /\ UNCHANGED <<pc, usuario_actual>>
    /\ UNCHANGED <<MongoClient, servidor, llamadas, coleccion_productos,
                   coleccion_usuarios, coleccion_ventas, productos, usuarios,
                   ventas, pasos>>

\* the first event loop returns (cerrar_programa of the login window, or
\* boton_cerrar_sesion / closing of the first main window): the script goes
\* on with the second copy, which connects again and calls its menu_principal
segunda_copia ==
    /\ pc \in {"login", "principal"}
    /\ pc' = "segunda"
    /\ coleccion_productos' = MongoClient
    /\ ret' = Ret("menu_principal", "")
    /\ UNCHANGED <<MongoClient, servidor, llamadas, coleccion_usuarios,
                   coleccion_ventas, productos, usuarios, ventas,
                   usuario_actual, pasos>>

\* the window of the second copy is closed: the script ends
fin ==
    /\ pc = "segunda"
    /\ pc' = "fin"
    /\ ret' = Ret("fin", "")
    /\ UNCHANGED <<MongoClient, servidor, llamadas, coleccion_productos,
                   coleccion_usuarios, coleccion_ventas, productos, usuarios,
                   ventas, usuario_actual, pasos>>

(***************************************************************************)
(* realizar_venta store operation by store operation, for several          *)
(* instances of the program working on one store: the read of the product  *)
(* and the checks, then the write of the stock, then the insertion of the  *)
(* sale document.  llamadas[c] is the call of client c: its position, its  *)
(* arguments, the document it read (prod, <<>> before the read) and what   *)
(* it returns.                                                             *)
(***************************************************************************)
Clientes == 1..MaxClientes

Libre ==
    [pc |-> "libre", id_producto |-> 0, cantidad_vendida |-> 0, prod |-> <<>>,
     err |-> "", total |-> 0]

\* variant: the write takes the quantity off the stock stored at the write
escribir_stock_actual(col, prod, cantidad_vendida) ==
    update_one(col, prod.id_producto,
        set_cantidad(nuevo_stock(col[find_one(col, prod.id_producto)].cantidad,
                                 cantidad_vendida)))

\* the stock write of realizar_venta, from the document prod read before
escribir_stock(col, prod, cantidad_vendida) ==
    update_one(col, prod.id_producto,
        set_cantidad(nuevo_stock(prod.cantidad, cantidad_vendida)))

\* find_one and the three checks
venta_leer(c, id, cantidad_vendida) ==
    LET e == error_venta(productos, id, cantidad_vendida) IN
    /\ pc = "principal"
    /\ llamadas[c].pc = "libre"
    /\ llamadas' = [llamadas EXCEPT ![c] =
          IF e = ""
          THEN [pc |-> "leido", id_producto |-> id,
                cantidad_vendida |-> cantidad_vendida,
                prod |-> <<productos[find_one(productos, id)]>>,
                err |-> "", total |-> 0]
          ELSE [pc |-> "retornado", id_producto |-> id,
                cantidad_vendida |-> cantidad_vendida, prod |-> <<>>,
                err |-> e, total |-> 0]]
    /\ UNCHANGED <<pc, MongoClient, servidor, coleccion_productos,
                   coleccion_usuarios, coleccion_ventas, productos, usuarios,
                   ventas, usuario_actual, ret, pasos>>

\* update_one with the new stock, and the total
venta_escribir(c) ==
    /\ pc = "principal"
    /\ llamadas[c].pc = "leido"
    /\ productos' = escribir_stock(productos, llamadas[c].prod[1],
                                   llamadas[c].cantidad_vendida)
    /\ llamadas' = [llamadas EXCEPT ![c].pc = "escrito",
                       ![c].total = total_venta(llamadas[c].cantidad_vendida,
                                                llamadas[c].prod[1].precio)]
    /\ UNCHANGED <<pc, MongoClient, servidor, coleccion_productos,
                   coleccion_usuarios, coleccion_ventas, usuarios, ventas,
                   usuario_actual, ret, pasos>>

\* the insertion of the sale document, and the return of the total
venta_registrar(c, falla) ==
    /\ pc = "principal"
    /\ llamadas[c].pc = "escrito"
    /\ ventas' = registrar_venta(ventas, llamadas[c].prod[1],
                                 llamadas[c].cantidad_vendida, usuario_actual,
                                 falla)
    /\ pasos' = pasos + 1
    /\ llamadas' = [llamadas EXCEPT ![c].pc = "retornado"]
    /\ UNCHANGED <<pc, MongoClient, servidor, coleccion_productos,
                   coleccion_usuarios, coleccion_ventas, productos, usuarios,
                   usuario_actual, ret>>

\* the instances are logged in as admin on a store with one product, just
\* added
InitConcurrente ==
    /\ pc = "principal"
    /\ MongoClient = TRUE
    /\ servidor = TRUE
    /\ coleccion_productos = TRUE
    /\ coleccion_usuarios = TRUE
    /\ coleccion_ventas = TRUE
    /\ \E f \in FormulariosBoton :
          /\ validar_producto(f) = ""
          /\ productos = <<documento(1, f)>>
          /\ ret = [Ret("agregar_producto", "") EXCEPT
                       !.docs = <<documento(1, f)>>]
    /\ usuarios = <<usuario_admin>>
    /\ ventas = <<>>
    /\ usuario_actual = "admin"
    /\ pasos = 1
    /\ llamadas = [c \in Clientes |-> Libre]

NextConcurrente ==
    \/ \E c \in Clientes, id \in Ids, q \in CantidadesVenta :
            venta_leer(c, id, q)
    \/ \E c \in Clientes : venta_escribir(c)
    \/ \E c \in Clientes, falla \in BOOLEAN : venta_registrar(c, falla)

SpecConcurrente == InitConcurrente /\ [][NextConcurrente]_vars

(***************************************************************************)
(* Specification                                                           *)
(***************************************************************************)
Init ==
    /\ pc = "arranque"
    /\ MongoClient \in BOOLEAN
    /\ servidor \in BOOLEAN
    /\ coleccion_productos = FALSE
    /\ coleccion_usuarios = FALSE
    /\ coleccion_ventas = FALSE
    /\ productos = <<>>
    /\ usuarios \in {<<>>, <<usuario_admin>>}
    /\ ~(MongoClient /\ servidor) => usuarios = <<>>
    /\ ventas = <<>>
    /\ usuario_actual = None
    /\ ret = Ret("", "")
    /\ pasos = 0
    /\ llamadas = [c \in Clientes |-> Libre]

Next ==
    \/ arranque
    \/ \E u \in EntradasUsuario, p \in EntradasPassword : intentar_login(u, p)
    \/ segunda_copia
    \/ fin
    \/ \E id \in Ids, f \in FormulariosBoton : boton_agregar(id, f)
    \/ \E b \in Busquedas : boton_buscar(b)
    \/ \E id \in Ids, d \in NuevosDatos : boton_modificar(id, d)
    \/ \E id \in Ids : boton_eliminar(id)
    \/ boton_mostrar_todo
    \/ \E id \in Ids, q \in CantidadesVenta, falla \in BOOLEAN :
            boton_realizar_venta(id, q, falla)
    \/ \E id \in Ids, q \in CantidadesVenta : boton_realizar_venta_2(id, q)
    \/ boton_reporte_stock_bajo
    \/ boton_reporte_valor_total
    \/ \E h \in Historiales : cargar_ventas(h)
    \/ \E u \in EntradasUsuario, p \in EntradasPassword :
            boton_registrar_usuario(u, p)

Spec == Init /\ [][Next]_vars

(***************************************************************************)
(* One instance of the program, logged in as admin, in which products are  *)
(* added and sold and nothing else is done, every sale document being      *)
(* inserted.                                                               *)
(***************************************************************************)
InitSecuencial ==
    /\ pc = "principal"
    /\ MongoClient = TRUE
    /\ servidor = TRUE
    /\ coleccion_productos = TRUE
    /\ coleccion_usuarios = TRUE
    /\ coleccion_ventas = TRUE
    /\ productos = <<>>
    /\ usuarios = <<usuario_admin>>
    /\ ventas = <<>>
    /\ usuario_actual = "admin"
    /\ ret = [Ret("validar_login", "") EXCEPT !.docs = <<usuario_admin>>]
    /\ pasos = 0
    /\ llamadas = [c \in Clientes |-> Libre]

NextSecuencial ==
    \/ \E id \in Ids, f \in FormulariosBoton : boton_agregar(id, f)
    \/ \E id \in Ids, q \in CantidadesVenta :
            boton_realizar_venta(id, q, FALSE)

SpecSecuencial == InitSecuencial /\ [][NextSecuencial]_vars

(***************************************************************************)
(* Vocabulary of the properties                                            *)
(***************************************************************************)
\* a product with that id is stored
Almacenado(col, id) == \E i \in 1..Len(col) : col[i].id_producto = id

\* the stored product with that id
Doc(col, id) == col[CHOOSE i \in 1..Len(col) : col[i].id_producto = id]

\* the outcomes of a realizar_venta call, by the first and the second copy
Ventas(id, q) ==
    {[err |-> r.err, total |-> r.total, productos |-> r.productos,
      ventas |-> r.ventas] :
        r \in {realizar_venta(productos, ventas, id, q, usuario_actual, falla) :
                  falla \in BOOLEAN}
              \cup {realizar_venta_2(productos, ventas, id, q)}}

\* the form passes every validation of Add
Valido(f) ==
    /\ f.nombre # <<>>
    /\ f.proveedor # <<>>
    /\ f.categoria \in CATEGORIAS
    /\ f.precio >= 0
    /\ f.cantidad >= 0

\* the product that Add stores for an id and a form
Producto(id, f) ==
    [id_producto |-> id, nombre |-> f.nombre, categoria |-> f.categoria,
     precio |-> f.precio, cantidad |-> f.cantidad, proveedor |-> f.proveedor]

\* the error kinds of the specification, as the messages of the source
ValidationError ==
    {"nombre_vacio", "categoria_invalida", "precio_negativo",
     "cantidad_negativa", "proveedor_vacio", "cantidad_no_positiva",
     "criterio_invalido", "usuario_vacio", "contrasena_vacia"}
ConflictError == {"ya_existe", "usuario_existe"}
NotFoundError == {"no_existe"}
InsufficientStockError == {"stock_insuficiente"}
ConnectivityError == {"sin_conexion"}

\* s is an initial segment of t
EsPrefijo(s, t) ==
    /\ Len(s) <= Len(t)
    /\ \A i \in 1..Len(s) : t[i] = s[i]

(***************************************************************************)
(* C1: in every reachable state, a sale of q units of a stored product     *)
(* with 0 < q <= its stock returns q * price (the price stored at the      *)
(* call) and leaves the stock of that product lower by exactly q.          *)
(***************************************************************************)
C1_VentaDescuentaYCobra ==
    \A id \in Ids, q \in CantidadesVenta :
        (/\ Almacenado(productos, id)
         /\ 0 < q
         /\ q <= Doc(productos, id).cantidad)
        => \A r \in Ventas(id, q) :
              /\ r.err = ""
              /\ r.total = q * Doc(productos, id).precio
              /\ Almacenado(r.productos, id)
              /\ Doc(r.productos, id).cantidad
                    = Doc(productos, id).cantidad - q

\* a sale of the whole stock has been made: the stock is 0 and the total is
\* the quantity times the price
C1_Testigo ==
    /\ ret.op = "realizar_venta"
    /\ ret.err = ""
    /\ ret.total = MaxCant * MaxPrecio
    /\ \E i \in 1..Len(productos) :
          productos[i].cantidad = 0 /\ productos[i].precio = MaxPrecio

(***************************************************************************)
(* C2: in every reachable state, a sale of q units of a stored product     *)
(* with q greater than its stock fails with the insufficient-stock error,  *)
(* writes no stock and inserts no sale document.                           *)
(***************************************************************************)
C2_StockInsuficiente ==
    \A id \in Ids, q \in CantidadesVenta :
        (/\ Almacenado(productos, id)
         /\ q > Doc(productos, id).cantidad)
        => \A r \in Ventas(id, q) :
              /\ r.err \in InsufficientStockError
              /\ r.productos = productos
              /\ r.ventas = ventas

(***************************************************************************)
(* C3: every stored product has quantity >= 0 and price >= 0.              *)
(***************************************************************************)
C3_NoNegativos ==
    \A i \in 1..Len(productos) :
        productos[i].cantidad >= 0 /\ productos[i].precio >= 0

(***************************************************************************)
(* C4: no two stored products have the same id_producto.                   *)
(***************************************************************************)
C4_IdUnico ==
    \A i, j \in 1..Len(productos) :
        productos[i].id_producto = productos[j].id_producto => i = j

\* two products are stored and an Add of a stored id has just been refused
C4_Testigo ==
    /\ Len(productos) = 2
    /\ ret.op = "agregar_producto"
    /\ ret.err = "ya_existe"

(***************************************************************************)
(* C5 as stated: Add with a stored id always fails with the conflict       *)
(* error and leaves the catalog as it is.                                  *)
(***************************************************************************)
C5_DuplicadoConflicto ==
    \A id \in Ids, f \in Formularios :
        Almacenado(productos, id)
        => LET r == agregar_producto(productos, id, f) IN
           /\ r.err \in ConflictError
           /\ r.productos = productos

(***************************************************************************)
(* C5 amended: Add with a stored id always fails and leaves the catalog    *)
(* as it is; the error is the conflict error when the form passes the      *)
(* validations and the validation error of the form otherwise.             *)
(***************************************************************************)
C5_DuplicadoRechazado ==
    \A id \in Ids, f \in Formularios :
        Almacenado(productos, id)
        => LET r == agregar_producto(productos, id, f) IN
           /\ r.err # ""
           /\ Valido(f) => r.err \in ConflictError
           /\ ~Valido(f) => r.err \in ValidationError
           /\ r.productos = productos

\* an Add of the id of the only stored product has just been refused
C5_Testigo ==
    /\ Len(productos) = 1
    /\ ret.op = "agregar_producto"
    /\ ret.err \in ConflictError
    /\ ret.docs = <<>>

(***************************************************************************)
(* C6: in every reachable state with the products collection at hand, Add  *)
(* of a valid form under an id that is not stored, followed by the search  *)
(* of that id, returns exactly one document, whose six fields are the      *)
(* values added.                                                           *)
(***************************************************************************)
C6_AgregarLuegoBuscar ==
    coleccion_productos =>
    \A id \in Ids, f \in Formularios :
        (Valido(f) /\ ~Almacenado(productos, id))
        => LET r == agregar_producto(productos, id, f)
               b == buscar_producto(r.productos,
                        [criterio |-> "id", texto |-> str(id),
                         categoria |-> ""])
           IN  /\ r.err = ""
               /\ b.err = ""
               /\ b.docs = <<Producto(id, f)>>

\* a second product has been added and the search that followed returned
\* that product alone
C6_Testigo ==
    /\ Len(productos) = 2
    /\ pasos = 2
    /\ ret.op = "buscar_producto"
    /\ ret.docs = <<productos[2]>>

(***************************************************************************)
(* C7: in every reachable state with the products collection at hand, Add  *)
(* fails with a validation error and stores nothing when the name or the   *)
(* supplier is empty, the category is not one of the four, or the price    *)
(* or the quantity is negative; it stores a product only for a form with   *)
(* none of these and an id that is not stored, and then stores that one.   *)
(***************************************************************************)
C7_ValidacionAgregar ==
    coleccion_productos =>
    \A id \in Ids, f \in Formularios :
        LET r == agregar_producto(productos, id, f) IN
        /\ ~Valido(f) => (r.err \in ValidationError /\ r.productos = productos)
        /\ r.productos # productos
              => /\ Valido(f)
                 /\ ~Almacenado(productos, id)
                 /\ r.productos = Append(productos, Producto(id, f))
        /\ (Valido(f) /\ ~Almacenado(productos, id)) => r.productos # productos

\* an Add has just been refused for a negative quantity
C7_Testigo ==
    /\ ret.op = "agregar_producto"
    /\ ret.err = "cantidad_negativa"
    /\ Len(productos) = 1

(***************************************************************************)
(* C8: every stored sale document has total = cantidad * precio_unitario,  *)
(* its precio_unitario is the price the product had when the sale was      *)
(* made, and no later step changes these fields of the document.           *)
(***************************************************************************)
C8_TotalCongelado ==
    /\ [](\A i \in 1..Len(ventas) :
            ventas[i].total = ventas[i].cantidad * ventas[i].precio_unitario)
    /\ [][/\ Len(ventas') > Len(ventas)
             => LET v == ventas'[Len(ventas')] IN
                /\ Almacenado(productos, v.id_producto)
                /\ v.precio_unitario = Doc(productos, v.id_producto).precio
          /\ \A i \in 1..Len(ventas) :
                /\ i <= Len(ventas')
                /\ ventas'[i].cantidad = ventas[i].cantidad
                /\ ventas'[i].precio_unitario = ventas[i].precio_unitario
                /\ ventas'[i].total = ventas[i].total]_vars

\* a sale is on record and the product has another price since, or is gone
C8_Testigo ==
    /\ Len(ventas) = 1
    /\ ventas[1].total = ventas[1].cantidad * MaxPrecio
    /\ \/ ~Almacenado(productos, ventas[1].id_producto)
       \/ Doc(productos, ventas[1].id_producto).precio
              # ventas[1].precio_unitario

(***************************************************************************)
(* C9: the sales collection is append-only: every step of the program      *)
(* leaves the documents already inserted in place and as they were.        *)
(***************************************************************************)
C9_VentasSoloCrecen == [][EsPrefijo(ventas, ventas')]_vars

\* two sales are on record, the first one still in the first place
C9_Testigo ==
    /\ Len(ventas) = 2
    /\ ventas[1].fecha < ventas[2].fecha

(***************************************************************************)
(* C10: a step changes the sales collection only when it is a call of      *)
(* realizar_venta that returns normally, and then it adds one document.    *)
(***************************************************************************)
C10_SoloVentaExitosa ==
    [][ventas' # ventas
          => /\ pc = "principal"
             /\ ret'.op = "realizar_venta"
             /\ ret'.err = ""
             /\ Len(ventas') = Len(ventas) + 1]_vars

\* the first sale has just been recorded
C10_Testigo ==
    /\ Len(ventas) = 1
    /\ ret.op = "realizar_venta"
    /\ ret.err = ""
    /\ ret.total = ventas[1].total

(***************************************************************************)
(* C11: in every reachable state, a sale that passes the checks of         *)
(* realizar_venta and whose insertion of the sale document fails still     *)
(* returns the total, leaves the stock of the product lower by q (the      *)
(* write is not undone) and leaves the sales collection as it was.         *)
(***************************************************************************)
C11_FalloDeRegistroSinReversion ==
    \A id \in Ids, q \in CantidadesVenta :
        (/\ Almacenado(productos, id)
         /\ 0 < q
         /\ q <= Doc(productos, id).cantidad)
        => LET r == realizar_venta(productos, ventas, id, q, usuario_actual,
                                   TRUE)
           IN  /\ r.err = ""
               /\ r.total = q * Doc(productos, id).precio
               /\ Doc(r.productos, id).cantidad
                     = Doc(productos, id).cantidad - q
               /\ r.ventas = ventas

\* in the first window, with the sales collection at hand, a sale has just
\* returned its total and no sale document is stored
C11_Testigo ==
    /\ pc = "principal"
    /\ coleccion_ventas
    /\ ret.op = "realizar_venta"
    /\ ret.err = ""
    /\ ret.total > 0
    /\ ventas = <<>>
    /\ \E i \in 1..Len(productos) : productos[i].cantidad = MaxCant - 1

(***************************************************************************)
(* C12: with two calls of realizar_venta interleaved, a call passes the    *)
(* stock check on the document it read and its write stores the stock it   *)
(* read minus its quantity, whatever has been written since the read       *)
(* (no conditional update); so two calls on one product both return        *)
(* normally although their quantities add up to more than the stock.       *)
(***************************************************************************)
C12_VentaNoAtomica ==
    /\ [](\A c \in Clientes :
            (llamadas[c].pc \in {"leido", "escrito"}
             \/ (llamadas[c].pc = "retornado" /\ llamadas[c].err = ""))
            => /\ 0 < llamadas[c].cantidad_vendida
               /\ llamadas[c].cantidad_vendida <= llamadas[c].prod[1].cantidad)
    /\ [][\A c \in Clientes :
            (llamadas[c].pc = "leido" /\ llamadas'[c].pc = "escrito")
            => Doc(productos', llamadas[c].id_producto).cantidad
                  = llamadas[c].prod[1].cantidad
                       - llamadas[c].cantidad_vendida]_vars

\* two calls on one product have read the same stock and both have returned
\* normally, and their quantities add up to more than that stock
C12_Testigo ==
    \E c1, c2 \in Clientes :
        /\ c1 # c2
        /\ llamadas[c1].pc = "retornado" /\ llamadas[c1].err = ""
        /\ llamadas[c2].pc = "retornado" /\ llamadas[c2].err = ""
        /\ llamadas[c1].id_producto = llamadas[c2].id_producto
        /\ llamadas[c1].prod = llamadas[c2].prod
        /\ llamadas[c1].cantidad_vendida + llamadas[c2].cantidad_vendida
              > llamadas[c1].prod[1].cantidad

C14_LoginExacto ==
    /\ [](coleccion_usuarios
          => \A u \in EntradasUsuario, p \in EntradasPassword :
                LET r == validar_login(usuarios, u, p) IN
                /\ r.err = ""
                /\ Len(r.docs) <= 1
                /\ r.docs # <<>>
                      <=> \E i \in 1..Len(usuarios) :
                             /\ usuarios[i].username = u
                             /\ usuarios[i].password = p
                /\ r.docs # <<>>
                      => /\ r.docs[1].username = u
                         /\ r.docs[1].password = p
                         /\ \E i \in 1..Len(usuarios) : usuarios[i] = r.docs[1])
    /\ [][ret'.op \in {"validar_login", "intentar_login"}
             => usuarios' = usuarios]_vars

\* a login attempt that matches no stored user has just returned None
\* without an error, admin being the only user stored
C14_Testigo ==
    /\ pc = "login"
    /\ ret.op = "validar_login"
    /\ ret.err = ""
    /\ ret.docs = <<>>
    /\ usuarios = <<usuario_admin>>

(***************************************************************************)
(* C15: the start-up, when it reaches the store, inserts the one default   *)
(* account admin/admin into an empty users collection and inserts nothing  *)
(* into a collection that holds a user; the start-up runs once, and after  *)
(* it the users collection changes only by a successful crear_usuario.     *)
(***************************************************************************)
C15_BootstrapUnaVez ==
    /\ [][(pc = "arranque" /\ MongoClient /\ servidor)
             => /\ usuarios = <<>>
                   => usuarios' = <<[username |-> "admin",
                                     password |-> "admin",
                                     creado_por |-> "sistema"]>>
                /\ usuarios # <<>> => usuarios' = usuarios]_vars
    /\ [][pc # "arranque"
             => /\ pc' # "arranque"
                /\ usuarios' # usuarios
                      => /\ ret'.op = "crear_usuario"
                         /\ ret'.err = ""
                         /\ ret'.docs # <<usuario_admin>>]_vars

\* after the start-up and a registration, the default account is stored once,
\* in the first place
C15_Testigo ==
    /\ pc = "principal"
    /\ Len(usuarios) = 2
    /\ usuarios[1] = usuario_admin
    /\ usuarios[2].username # "admin"
    /\ ret.op = "crear_usuario"

(***************************************************************************)
(* C16: after the start-up, a step changes the users collection only by    *)
(* adding one user at a moment when a user is logged in, and the creado_por*)
(* of the user added is the username logged in at that moment.             *)
(***************************************************************************)
C16_RegistroAutenticado ==
    [][(pc # "arranque" /\ usuarios' # usuarios)
          => /\ usuario_actual # None
             /\ usuario_actual' = usuario_actual
             /\ ret'.op = "crear_usuario"
             /\ Len(usuarios') = Len(usuarios) + 1
             /\ EsPrefijo(usuarios, usuarios')
             /\ usuarios'[Len(usuarios')].creado_por = usuario_actual]_vars

\* admin is logged in and has just registered a second user
C16_Testigo ==
    /\ Len(usuarios) = 2
    /\ usuarios[2].creado_por = "admin"
    /\ usuario_actual = "admin"
    /\ ret.op = "crear_usuario"
    /\ ret.err = ""

(***************************************************************************)
(* C17: a main inventory window is open only after a login attempt in      *)
(* which validar_login returned a user (which is when usuario_actual is    *)
(* set); without a successful login no main window is ever opened.         *)
(***************************************************************************)
C17_VentanaSoloTrasLogin ==
    pc \in {"principal", "segunda"} => usuario_actual # None

(***************************************************************************)
(* C18: every sale made through the interface adds to the sales collection *)
(* one document whose usuario is the username logged in, and the username  *)
(* logged in, once set, does not change.                                   *)
(***************************************************************************)
C18_VentaConUsuario ==
    /\ [][(ret'.op = "realizar_venta" /\ ret'.err = "" /\ pasos' # pasos)
             => /\ usuario_actual # None
                /\ Len(ventas') = Len(ventas) + 1
                /\ EsPrefijo(ventas, ventas')
                /\ ventas'[Len(ventas')].usuario = usuario_actual]_vars
    /\ [][usuario_actual # None => usuario_actual' = usuario_actual]_vars

(***************************************************************************)
(* C19: with the products collection at hand, the low-stock list of        *)
(* generar_reporte holds exactly the stored products whose quantity is     *)
(* strictly below 5, each once: a product with quantity 5 is not listed,   *)
(* a product with quantity 4 or less is.                                   *)
(***************************************************************************)
C19_StockBajoEstricto ==
    coleccion_productos
    => LET r == generar_reporte(productos) IN
       /\ r.err = ""
       /\ \A i \in 1..Len(productos) :
             productos[i].cantidad < 5
                <=> \E j \in 1..Len(r.docs) : r.docs[j] = productos[i]
       /\ \A j \in 1..Len(r.docs) :
             \E i \in 1..Len(productos) : productos[i] = r.docs[j]
       /\ \A j, k \in 1..Len(r.docs) : r.docs[j] = r.docs[k] => j = k

\* the report has just listed the product with quantity 4 and not the one
\* with quantity 5
C19_Testigo ==
    /\ ret.op = "reporte_stock_bajo"
    /\ ret.err = ""
    /\ Len(ret.docs) = 1
    /\ ret.docs[1].cantidad = 4
    /\ \E i \in 1..Len(productos) : productos[i].cantidad = 5

\* the sum of cantidad * precio over the documents of a collection
RECURSIVE SumaValor(_, _)
SumaValor(col, n) ==
    IF n = 0 THEN 0
    ELSE SumaValor(col, n - 1) + col[n].cantidad * col[n].precio

(***************************************************************************)
(* C20: with the products collection at hand, the total value of           *)
(* generar_reporte is the sum of cantidad * precio over all the stored     *)
(* products, and the low-stock list of the same report is drawn from       *)
(* those same products (one read of the catalog).                          *)
(***************************************************************************)
C20_ValorTotalMismaLectura ==
    coleccion_productos
    => LET r == generar_reporte(productos)
           F(p) == p.cantidad < 5
       IN  /\ r.err = ""
           /\ r.total = SumaValor(productos, Len(productos))
           /\ r.docs = SelectSeq(productos, F)

\* the value of two products, one of them not in the low-stock list, has
\* just been reported
C20_Testigo ==
    /\ ret.op = "reporte_valor_total"
    /\ ret.err = ""
    /\ Len(productos) = 2
    /\ productos[1].cantidad = MaxCant
    /\ productos[2].cantidad = 0
    /\ productos[1].precio = MaxPrecio
    /\ ret.total = MaxCant * MaxPrecio

(***************************************************************************)
(* C21: with the products collection at hand, modificar_producto raises    *)
(* nothing and returns True exactly when a product with the id is stored;  *)
(* when none is stored it returns False and the catalog is as before, no   *)
(* document created.                                                       *)
(***************************************************************************)
C21_ModificarDevuelveCoincidencia ==
    coleccion_productos
    => \A id \in Ids, d \in NuevosDatos :
          LET r == modificar_producto(productos, id, d) IN
          /\ r.err = ""
          /\ r.ok <=> Almacenado(productos, id)
          /\ Len(r.productos) = Len(productos)
          /\ ~Almacenado(productos, id) => r.productos = productos

\* an update of an id that is not stored has just returned False, another
\* product being stored
C21_Testigo ==
    /\ ret.op = "modificar_producto"
    /\ ret.err = ""
    /\ ~ret.ok
    /\ Len(productos) = 1

(***************************************************************************)
(* C22: with the products collection at hand, modificar_producto with any  *)
(* set of the fields nombre, categoria, precio, cantidad, proveedor gives  *)
(* the fields of the set their new values in the product with the id,      *)
(* keeps its other fields, keeps every other product as it was, and        *)
(* changes the id_producto of no product.                                  *)
(***************************************************************************)
C22_IdInmutable ==
    coleccion_productos
    => \A id \in Ids, d \in NuevosDatos :
          LET r == modificar_producto(productos, id, d) IN
          /\ Len(r.productos) = Len(productos)
          /\ \A i \in 1..Len(productos) :
                /\ r.productos[i].id_producto = productos[i].id_producto
                /\ productos[i].id_producto # id
                      => r.productos[i] = productos[i]
                /\ productos[i].id_producto = id
                      => \A c \in Campos :
                            r.productos[i][c] =
                               IF c \in d.claves THEN d.valores[c]
                               ELSE productos[i][c]

\* an update has just given one product another category; both products
\* are stored under the ids they were added with
C22_Testigo ==
    /\ ret.op = "modificar_producto"
    /\ ret.ok
    /\ Len(productos) = 2
    /\ productos[1].id_producto # productos[2].id_producto
    /\ productos[1].categoria # productos[2].categoria
    /\ productos[1].cantidad = productos[2].cantidad

(***************************************************************************)
(* C23: with the products collection at hand, eliminar_producto raises     *)
(* nothing; when the id is stored it returns True and removes that         *)
(* product, when it is not it returns False and changes nothing; the       *)
(* other products stay as they were, in their order, and a second          *)
(* eliminar_producto of the id returns False.  A step that deletes leaves  *)
(* the users and the sales as they were.                                   *)
(***************************************************************************)
C23_EliminarSoloEse ==
    /\ [](coleccion_productos
          => \A id \in Ids :
                LET r == eliminar_producto(productos, id)
                    Otro(p) == p.id_producto # id
                    s == eliminar_producto(r.productos, id)
                IN  /\ r.err = ""
                    /\ r.ok <=> Almacenado(productos, id)
                    /\ ~Almacenado(r.productos, id)
                    /\ r.productos = SelectSeq(productos, Otro)
                    /\ ~r.ok => r.productos = productos
                    /\ s.err = ""
                    /\ ~s.ok
                    /\ s.productos = r.productos)
    /\ [][ret'.op = "eliminar_producto"
             => /\ usuarios' = usuarios
                /\ ventas' = ventas]_vars

\* one of two products has just been deleted, the other one is stored
C23_Testigo ==
    /\ ret.op = "eliminar_producto"
    /\ ret.ok
    /\ pasos = 3
    /\ Len(productos) = 1
    /\ usuarios # <<>>

\* the two letters of the input texts, small
Pequena(c) == IF c = "A" THEN "a" ELSE IF c = "B" THEN "b" ELSE c

\* valor is found in texto as a run of characters, letter case aside
Contiene(valor, texto) ==
    \E k \in 0..(Len(texto) - Len(valor)) :
        \A i \in 1..Len(valor) : Pequena(valor[i]) = Pequena(texto[k + i])

\* docs holds exactly the documents of col that satisfy Cumple, each once,
\* by ascending id_producto
ExactamentePorId(docs, col, Cumple(_)) ==
    /\ \A i \in 1..Len(col) :
          Cumple(col[i]) <=> \E j \in 1..Len(docs) : docs[j] = col[i]
    /\ \A j \in 1..Len(docs) : \E i \in 1..Len(col) : col[i] = docs[j]
    /\ \A j, k \in 1..Len(docs) :
          j < k => docs[j].id_producto < docs[k].id_producto

(***************************************************************************)
(* C24: with the products collection at hand, buscar_producto by nombre    *)
(* (by proveedor) returns exactly the stored products whose nombre         *)
(* (proveedor) contains the value as a substring, letter case aside, by    *)
(* ascending id; with a criterion that is none of id, nombre, proveedor,   *)
(* categoria it fails with a validation error.                             *)
(***************************************************************************)
C24_BusquedaSubcadena ==
    coleccion_productos
    => \A b \in Busquedas :
          LET r == buscar_producto(productos, b)
              EnNombre(p) == Contiene(b.texto, p.nombre)
              EnProveedor(p) == Contiene(b.texto, p.proveedor)
          IN  /\ b.criterio = "nombre"
                    => /\ r.err = ""
                       /\ ExactamentePorId(r.docs, productos, EnNombre)
              /\ b.criterio = "proveedor"
                    => /\ r.err = ""
                       /\ ExactamentePorId(r.docs, productos, EnProveedor)
              /\ b.criterio \notin {"id", "nombre", "proveedor", "categoria"}
                    => r.err \in ValidationError

(***************************************************************************)
(* C25: a service function whose collection handle is None fails with the  *)
(* connectivity error, whatever its arguments, and leaves the stored data  *)
(* as it was: the functions of the catalog, the sale and the report for    *)
(* coleccion_productos, the history for coleccion_ventas, the              *)
(* registration and the login for coleccion_usuarios.                      *)
(***************************************************************************)
C25_SinConexion ==
    /\ ~coleccion_productos
       => /\ \A id \in Ids, f \in Formularios :
                LET r == agregar_producto(productos, id, f) IN
                r.err \in ConnectivityError /\ r.productos = productos
          /\ \A b \in Busquedas :
                buscar_producto(productos, b).err \in ConnectivityError
          /\ \A id \in Ids, d \in NuevosDatos :
                LET r == modificar_producto(productos, id, d) IN
                r.err \in ConnectivityError /\ r.productos = productos
          /\ \A id \in Ids :
                LET r == eliminar_producto(productos, id) IN
                r.err \in ConnectivityError /\ r.productos = productos
          /\ mostrar_inventario(productos).err \in ConnectivityError
          /\ generar_reporte(productos).err \in ConnectivityError
          /\ \A id \in Ids, q \in CantidadesVenta :
                \A r \in Ventas(id, q) :
                   /\ r.err \in ConnectivityError
                   /\ r.productos = productos
                   /\ r.ventas = ventas
    /\ ~coleccion_ventas
       => \A h \in Historiales :
             obtener_ventas(ventas, h).err \in ConnectivityError
    /\ ~coleccion_usuarios
       => \A u \in Usernames \cup {""}, p \in EntradasPassword :
             /\ LET r == crear_usuario(usuarios, u, p, usuario_actual) IN
                r.err \in ConnectivityError /\ r.usuarios = usuarios
             /\ validar_login(usuarios, u, p).err \in ConnectivityError

\* without pymongo, the inventory window is open and a sale has just failed
\* with the connectivity error
C25_Testigo ==
    /\ ~MongoClient
    /\ pc = "segunda"
    /\ ret.op = "realizar_venta"
    /\ ret.err = "sin_conexion"
    /\ productos = <<>>

(***************************************************************************)
(* C26: with the products collection at hand, realizar_venta fails with    *)
(* the not-found error when the id is not stored, whatever the quantity;   *)
(* otherwise with the validation error when the quantity is <= 0;          *)
(* otherwise with the insufficient-stock error when the stock is below     *)
(* the quantity; it fails in no other case, and a call that fails leaves   *)
(* the products and the sales as they were.                                *)
(***************************************************************************)
C26_OrdenDeErrores ==
    coleccion_productos
    => \A id \in Ids, q \in CantidadesVenta :
          \A r \in Ventas(id, q) :
             /\ r.err = IF ~Almacenado(productos, id) THEN "no_existe"
                        ELSE IF q <= 0 THEN "cantidad_no_positiva"
                        ELSE IF Doc(productos, id).cantidad < q
                             THEN "stock_insuficiente"
                        ELSE ""
             /\ "no_existe" \in NotFoundError
             /\ "cantidad_no_positiva" \in ValidationError
             /\ "stock_insuficiente" \in InsufficientStockError
             /\ r.err # "" => (r.productos = productos /\ r.ventas = ventas)

\* a sale of an id that is not stored has just failed with the not-found
\* error, another product being stored
C26_Testigo ==
    /\ ret.op = "realizar_venta"
    /\ ret.err = "no_existe"
    /\ Len(productos) = 1
    /\ ventas = <<>>

(***************************************************************************)
(* C27: under every interleaving of realizar_venta calls on a product      *)
(* that was added, a call that has passed the checks sells no more than    *)
(* the stock it read, and no stored quantity is ever negative, the calls   *)
(* overselling together or not.                                            *)
(***************************************************************************)
C27_VentaDentroDeLoLeido ==
    /\ \A c \in Clientes :
          llamadas[c].prod # <<>>
          => /\ llamadas[c].cantidad_vendida <= llamadas[c].prod[1].cantidad
             /\ llamadas[c].prod[1].cantidad - llamadas[c].cantidad_vendida
                   >= 0
    /\ \A i \in 1..Len(productos) : productos[i].cantidad >= 0

\* two calls have both sold from the stock they both read, more than that
\* stock together, and the quantity stored at the end is 0
C27_Testigo ==
    /\ llamadas[1].pc = "retornado" /\ llamadas[1].err = ""
    /\ llamadas[2].pc = "retornado" /\ llamadas[2].err = ""
    /\ llamadas[1].prod = llamadas[2].prod
    /\ llamadas[1].prod # <<>>
    /\ llamadas[1].cantidad_vendida + llamadas[2].cantidad_vendida
          > llamadas[1].prod[1].cantidad
    /\ productos[1].cantidad = 0

\* the sum of the cantidad fields of the first n sale documents that are of
\* the product id
RECURSIVE SumaVendida(_, _, _)
SumaVendida(vts, id, n) ==
    IF n = 0 THEN 0
    ELSE SumaVendida(vts, id, n - 1)
         + (IF vts[n].id_producto = id THEN vts[n].cantidad ELSE 0)

\* the stored quantity of the product id plus what the sale documents say
\* was sold of it
Existencia(col, vts, id) ==
    Doc(col, id).cantidad + SumaVendida(vts, id, Len(vts))

(***************************************************************************)
(* C28: when products are added once and then only sold, one call at a     *)
(* time and every sale document inserted, the stored quantity of a         *)
(* product plus the sum of the cantidad of its sale documents is the       *)
(* quantity given at Add: it is that quantity when the product is added,   *)
(* and no later step changes it.                                           *)
(***************************************************************************)
C28_ConservacionDeExistencias ==
    [][/\ \A id \in Ids :
             (~Almacenado(productos, id) /\ Almacenado(productos', id))
             => /\ ret'.op = "agregar_producto"
                /\ ret'.docs # <<>>
                /\ ret'.docs[1].id_producto = id
                /\ Existencia(productos', ventas', id) = ret'.docs[1].cantidad
       /\ \A id \in Ids :
             Almacenado(productos, id)
             => /\ Almacenado(productos', id)
                /\ Existencia(productos', ventas', id)
                      = Existencia(productos, ventas, id)]_vars

\* a product added with MaxCant units has been sold twice, one unit each
\* time
C28_Testigo ==
    /\ Len(productos) = 1
    /\ Len(ventas) = 2
    /\ productos[1].cantidad = MaxCant - 2
    /\ ventas[1].cantidad + ventas[2].cantidad = 2

====
